---- MODULE Spec2Model ----
(***************************************************************************)
(* Model of bot.py: a role-gated Telegram command bot.  Three module-level *)
(* collections (ADMINS, MODERATORS, COMMANDS) are loaded from JSON files,  *)
(* mutated by the admin handlers and rewritten wholesale after every       *)
(* mutation.  main() registers five CommandHandlers, each behind a         *)
(* Filters.user filter built from the lists at startup, and a catch-all    *)
(* MessageHandler(Filters.command) that serves the custom commands.        *)
(* One action models one handler call, from dispatch to its last effect.   *)
(***************************************************************************)
EXTENDS Integers, Sequences, FiniteSets, TLC

VARIABLES
    ADMINS,         \* bot.py:30  list of user ids
    MODERATORS,     \* bot.py:33  list of user ids
    COMMANDS,       \* bot.py:37  dict, as the insertion-ordered list of its items
    admins_json,    \* content of admins.json
    mods_json,      \* content of mods.json
    commands_json,  \* content of commands.json
    adminFilter,    \* ids handed to Filters.user(user_id=ADMINS), bot.py:211
    helpFilter,     \* ids handed to Filters.user(user_id=ADMINS + MODERATORS), bot.py:213
    liveFilter,     \* TRUE when the installed library keeps the ADMINS list object itself
    pre,            \* the collections and files as they were when the last update arrived
    last,           \* the last update: sender, words of the text, handler that ran, write outcome
    out,            \* the effects of the last handler call, in order
    steps           \* number of updates processed

vars == <<ADMINS, MODERATORS, COMMANDS, admins_json, mods_json, commands_json,
          adminFilter, helpFilter, liveFilter, pre, last, out, steps>>

-----------------------------------------------------------------------------
(* Bounds and input sets *)

MaxSteps == 2

Users == {111, 222}

\* What each write to a file can do: complete, fail in open() before the
\* file is touched, or fail in json.dump() after open() has truncated it.
WriteOutcomes == {"ok", "open_fails", "dump_fails"}

-----------------------------------------------------------------------------
(* Sequences, lists and dicts *)

Range(s) == {s[i] : i \in 1..Len(s)}

RECURSIVE JoinWith(_, _)
JoinWith(sep, ws) ==
    IF ws = <<>> THEN ""
    ELSE IF Len(ws) = 1 THEN ws[1]
    ELSE ws[1] \o sep \o JoinWith(sep, Tail(ws))

Join(ws) == JoinWith(" ", ws)

\* list.remove(x): drops the first occurrence of x
RECURSIVE ListRemove(_, _)
ListRemove(l, x) ==
    IF l = <<>> THEN <<>>
    ELSE IF Head(l) = x THEN Tail(l)
    ELSE <<Head(l)>> \o ListRemove(Tail(l), x)

ListAppend(l, x) == Append(l, x)

HasKey(d, k) == \E i \in 1..Len(d) : d[i].cmd = k

Lookup(d, k) == d[CHOOSE i \in 1..Len(d) : d[i].cmd = k].resp

\* d.setdefault(k, v): an existing key keeps its value
DictSetDefault(d, k, v) ==
    IF HasKey(d, k) THEN d ELSE Append(d, [cmd |-> k, resp |-> v])

\* d[k] = v: an existing key keeps its place, a new key goes last
DictSet(d, k, v) ==
    IF HasKey(d, k)
    THEN [i \in 1..Len(d) |-> IF d[i].cmd = k THEN [cmd |-> k, resp |-> v] ELSE d[i]]
    ELSE Append(d, [cmd |-> k, resp |-> v])

\* d.clear()
DictClear(d, k) == <<>>

DictDel(d, k) == SelectSeq(d, LAMBDA e : e.cmd # k)

\* a membership test against the list as it was at startup
is_admin_at_startup(user_id) == user_id \in adminFilter

\* a membership test that lets anyone in while the list is empty
is_admin_or_first(user_id) == ADMINS = <<>> \/ user_id \in Range(ADMINS)

is_admin(user_id) == user_id \in Range(ADMINS)

is_moderator(user_id) == user_id \in Range(MODERATORS)

-----------------------------------------------------------------------------
(* Files *)

File(data) == [valid |-> TRUE, data |-> data]

Truncated == [valid |-> FALSE, data |-> <<>>]

\* a write that leaves the file as it was
WriteFileStale(old, data, w) == old

\* a write that cannot fail
WriteFileAlways(old, data, w) == File(data)

\* with open(name, 'w') as f: json.dump(data, f)
WriteFile(old, data, w) ==
    CASE w = "ok" -> File(data)
      [] w = "open_fails" -> old
      [] w = "dump_fails" -> Truncated

-----------------------------------------------------------------------------
(* Effects of a handler call *)

Reply(lines) == [kind |-> "reply_text", text |-> lines]
SendMessage(lines) == [kind |-> "send_message", text |-> lines]
DeleteMessage == [kind |-> "delete_message", text |-> <<>>]
Written(name) == [kind |-> "write", text |-> <<name>>]
LogWarning(line) == [kind |-> "log_warning", text |-> <<line>>]
LogInfo(line) == [kind |-> "log_info", text |-> <<line>>]
Raised(exc) == [kind |-> "raise", text |-> <<exc>>]

\* the reply and the log first, the write after them
ReplyThenWrite(name, w, after) ==
    IF w = "ok" THEN after \o <<Written(name)>> ELSE after \o <<Raised("OSError")>>

\* the effects of a write followed by the effects `after` of the rest of the
\* handler: a failed write raises and the rest of the handler does not run
WriteThen(name, w, after) ==
    IF w = "ok" THEN <<Written(name)>> \o after ELSE <<Raised("OSError")>>

-----------------------------------------------------------------------------
(* Dispatch *)

BuiltinHandler ==
    ("/add_command" :> "add_command") @@ ("/remove_command" :> "remove_command") @@
    ("/help" :> "list_commands") @@ ("/assign" :> "assign_role") @@
    ("/view_roles" :> "view_roles")

\* Filters.command: the text starts with "/"
CommandWords == DOMAIN BuiltinHandler \cup {"/hi"}

IsCommandText(words) == words[1] \in CommandWords

\* Filters.user(user_id=ADMINS)
AdminFilterPasses(user_id) ==
    IF liveFilter THEN user_id \in Range(ADMINS) ELSE user_id \in adminFilter

\* Filters.user(user_id=ADMINS + MODERATORS): the concatenation is a new list
HelpFilterPasses(user_id) == user_id \in helpFilter

FilterPasses(handler, user_id) ==
    IF handler = "list_commands" THEN HelpFilterPasses(user_id)
    ELSE AdminFilterPasses(user_id)

\* The dispatcher runs the first handler of the group whose check_update
\* accepts the update: a CommandHandler whose filter rejects the sender
\* passes the update on to the handlers registered after it.
Route(user_id, words) ==
    IF words[1] \in DOMAIN BuiltinHandler /\ FilterPasses(BuiltinHandler[words[1]], user_id)
    THEN BuiltinHandler[words[1]]
    ELSE IF IsCommandText(words) THEN "handle_command"
    ELSE "none"

Args(words) == Tail(words)

Snapshot ==
    [ADMINS |-> ADMINS, MODERATORS |-> MODERATORS, COMMANDS |-> COMMANDS,
     admins_json |-> admins_json, mods_json |-> mods_json,
     commands_json |-> commands_json]

\* bookkeeping common to every handler call
Arrive(user_id, words, handler, w) ==
    /\ steps < MaxSteps
    /\ Route(user_id, words) = handler
    /\ steps' = steps + 1
    /\ pre' = Snapshot
    /\ last' = [sender |-> user_id, words |-> words, handler |-> handler, write |-> w]
    /\ UNCHANGED <<adminFilter, helpFilter, liveFilter>>

-----------------------------------------------------------------------------
(* Handlers *)

\* the argument-count checks of the three admin handlers
AddArityOk(args) == Len(args) >= 2

RemoveArityOk(args) == Len(args) = 1

AssignArityAtLeast(args) == Len(args) >= 3

AssignArityOk(args) == Len(args) = 3

handle_command(user_id, words) ==
    /\ Arrive(user_id, words, "handle_command", "ok")
    /\ LET command == words[1] IN
       out' = IF is_admin(user_id) \/ is_moderator(user_id)
              THEN IF HasKey(COMMANDS, command) /\ Lookup(COMMANDS, command) # ""
                   THEN <<SendMessage(<<Lookup(COMMANDS, command)>>),
                          DeleteMessage,
                          LogInfo("Command " \o command \o " executed by user " \o ToString(user_id))>>
                   ELSE <<>>
              ELSE <<LogWarning("Unauthorized command attempt by user " \o ToString(user_id))>>
    /\ UNCHANGED <<ADMINS, MODERATORS, COMMANDS, admins_json, mods_json, commands_json>>

add_command(user_id, words, w) ==
    /\ Arrive(user_id, words, "add_command", w)
    /\ LET args == Args(words) IN
       IF ~is_admin(user_id)
       THEN /\ w = "ok"
            /\ out' = <<LogWarning("Unauthorized add_command attempt by user " \o ToString(user_id))>>
            /\ UNCHANGED <<COMMANDS, commands_json>>
       ELSE IF ~AddArityOk(args)
       THEN /\ w = "ok"
            /\ out' = <<Reply(<<"Usage: /add_command <command> <response>">>)>>
            /\ UNCHANGED <<COMMANDS, commands_json>>
       ELSE LET command == args[1]
                response == Join(Tail(args))
            IN /\ COMMANDS' = DictSet(COMMANDS, command, response)
               /\ commands_json' = WriteFile(commands_json, COMMANDS', w)
               /\ out' = WriteThen("commands.json", w,
                            <<Reply(<<"Command " \o command \o " added.">>),
                              LogInfo("Command " \o command \o " added by admin " \o ToString(user_id))>>)
    /\ UNCHANGED <<ADMINS, MODERATORS, admins_json, mods_json>>

remove_command(user_id, words, w) ==
    /\ Arrive(user_id, words, "remove_command", w)
    /\ LET args == Args(words) IN
       IF ~is_admin(user_id)
       THEN /\ w = "ok"
            /\ out' = <<LogWarning("Unauthorized remove_command attempt by user " \o ToString(user_id))>>
            /\ UNCHANGED <<COMMANDS, commands_json>>
       ELSE IF ~RemoveArityOk(args)
       THEN /\ w = "ok"
            /\ out' = <<Reply(<<"Usage: /remove_command <command>">>)>>
            /\ UNCHANGED <<COMMANDS, commands_json>>
       ELSE LET command == args[1] IN
            IF HasKey(COMMANDS, command)
            THEN /\ COMMANDS' = DictDel(COMMANDS, command)
                 /\ commands_json' = WriteFile(commands_json, COMMANDS', w)
                 /\ out' = WriteThen("commands.json", w,
                              <<Reply(<<"Command " \o command \o " removed.">>),
                                LogInfo("Command " \o command \o " removed by admin " \o ToString(user_id))>>)
            ELSE /\ w = "ok"
                 /\ out' = <<Reply(<<"Command " \o command \o " does not exist.">>)>>
                 /\ UNCHANGED <<COMMANDS, commands_json>>
    /\ UNCHANGED <<ADMINS, MODERATORS, admins_json, mods_json>>

\* "\n".join(f"{cmd} - {resp}" for cmd, resp in COMMANDS.items()), as its lines
CustomLines(d) ==
    IF d = <<>> THEN <<"">>
    ELSE [i \in 1..Len(d) |-> d[i].cmd \o " - " \o d[i].resp]

HelpLines(d) ==
    <<"Available commands:",
      "/add_command <command> <response> - Add a new command (Admins only)",
      "/remove_command <command> - Remove an existing command (Admins only)",
      "/assign <admin|moderator> <add|remove> <user_id> - Assign roles (Admins only)",
      "/help - Show this help message",
      "Custom Commands:">> \o CustomLines(d)

list_commands(user_id, words) ==
    /\ Arrive(user_id, words, "list_commands", "ok")
    /\ out' = IF is_admin(user_id) \/ is_moderator(user_id)
              THEN <<Reply(HelpLines(COMMANDS)),
                     LogInfo("Command list requested by user " \o ToString(user_id))>>
              ELSE <<LogWarning("Unauthorized help command attempt by user " \o ToString(user_id))>>
    /\ UNCHANGED <<ADMINS, MODERATORS, COMMANDS, admins_json, mods_json, commands_json>>

\* "\n".join(str(id) for id in l) or empty, as its lines
IdLines(l, empty) ==
    IF l = <<>> THEN <<empty>> ELSE [i \in 1..Len(l) |-> ToString(l[i])]

RolesLines(admins, moderators) ==
    <<"Admins:">> \o IdLines(admins, "No admins.") \o
    <<"", "Moderators:">> \o IdLines(moderators, "No moderators.")

view_roles(user_id, words) ==
    /\ Arrive(user_id, words, "view_roles", "ok")
    /\ out' = IF is_admin(user_id)
              THEN <<Reply(RolesLines(ADMINS, MODERATORS)),
                     LogInfo("Roles list requested by user " \o ToString(user_id))>>
              ELSE <<LogWarning("Unauthorized view_roles command attempt by user " \o ToString(user_id))>>
    /\ UNCHANGED <<ADMINS, MODERATORS, COMMANDS, admins_json, mods_json, commands_json>>

\* int(s) on the argument strings of the model: a decimal literal, leading
\* zeros allowed, gives its value; any other string raises ValueError
IntLiteral == ("111" :> 111) @@ ("222" :> 222) @@ ("0222" :> 222)

CanParseInt(s) == s \in DOMAIN IntLiteral

ParseInt(s) == IntLiteral[s]

\* a tier's branch without the membership tests
AssignTierUnchecked(list, action, target_id, noun, plural) ==
    IF action = "add"
    THEN [list |-> ListAppend(list, target_id), write |-> TRUE,
          reply |-> "User " \o ToString(target_id) \o " added as " \o noun \o ".",
          log |-> "User " \o ToString(target_id) \o " added as " \o noun \o " by "]
    ELSE IF action = "remove"
    THEN [list |-> ListRemove(list, target_id), write |-> TRUE,
          reply |-> "User " \o ToString(target_id) \o " removed from " \o plural \o ".",
          log |-> "User " \o ToString(target_id) \o " removed from " \o plural \o " by "]
    ELSE [list |-> list, write |-> FALSE,
          reply |-> "Invalid action. Use \"add\" or \"remove\".", log |-> ""]

\* one tier's branch of assign_role: the new list, whether it is written,
\* and the reply
AssignTier(list, action, target_id, noun, plural) ==
    IF action = "add"
    THEN IF target_id \notin Range(list)
         THEN [list |-> ListAppend(list, target_id), write |-> TRUE,
               reply |-> "User " \o ToString(target_id) \o " added as " \o noun \o ".",
               log |-> "User " \o ToString(target_id) \o " added as " \o noun \o " by "]
         ELSE [list |-> list, write |-> FALSE,
               reply |-> "User " \o ToString(target_id) \o " is already " \o
                         (IF noun = "admin" THEN "an " ELSE "a ") \o noun \o ".",
               log |-> ""]
    ELSE IF action = "remove"
    THEN IF target_id \in Range(list)
         THEN [list |-> ListRemove(list, target_id), write |-> TRUE,
               reply |-> "User " \o ToString(target_id) \o " removed from " \o plural \o ".",
               log |-> "User " \o ToString(target_id) \o " removed from " \o plural \o " by "]
         ELSE [list |-> list, write |-> FALSE,
               reply |-> "User " \o ToString(target_id) \o " is not " \o
                         (IF noun = "admin" THEN "an " ELSE "a ") \o noun \o ".",
               log |-> ""]
    ELSE [list |-> list, write |-> FALSE,
          reply |-> "Invalid action. Use \"add\" or \"remove\".", log |-> ""]

\* the other tier's list
RoleListSwapped(role) == IF role = "admin" THEN MODERATORS ELSE ADMINS

\* the list a role names
RoleList(role) == IF role = "admin" THEN ADMINS ELSE MODERATORS

assign_role(user_id, words, w) ==
    /\ Arrive(user_id, words, "assign_role", w)
    /\ LET args == Args(words)
           Unchanged == UNCHANGED <<ADMINS, MODERATORS, admins_json, mods_json>>
       IN
       IF ~is_admin(user_id)
       THEN /\ w = "ok"
            /\ out' = <<LogWarning("Unauthorized assign_role attempt by user " \o ToString(user_id))>>
            /\ Unchanged
       ELSE IF ~AssignArityOk(args)
       THEN /\ w = "ok"
            /\ out' = <<Reply(<<"Usage: /assign <admin|moderator> <add|remove> <user_id>">>)>>
            /\ Unchanged
       ELSE IF ~CanParseInt(args[3])
       THEN /\ w = "ok"
            /\ out' = <<Raised("ValueError")>>
            /\ Unchanged
       ELSE LET role == args[1]
                action == args[2]
                target_id == ParseInt(args[3])
            IN
            IF role = "admin"
            THEN LET r == AssignTier(RoleList("admin"), action, target_id, "admin", "admins") IN
                 /\ ADMINS' = r.list
                 /\ IF r.write
                    THEN /\ admins_json' = WriteFile(admins_json, ADMINS', w)
                         /\ out' = WriteThen("admins.json", w,
                                      <<Reply(<<r.reply>>), LogInfo(r.log \o ToString(user_id))>>)
                    ELSE /\ w = "ok"
                         /\ out' = <<Reply(<<r.reply>>)>>
                         /\ UNCHANGED admins_json
                 /\ UNCHANGED <<MODERATORS, mods_json>>
            ELSE IF role = "moderator"
            THEN LET r == AssignTier(RoleList("moderator"), action, target_id, "moderator", "moderators") IN
                 /\ MODERATORS' = r.list
                 /\ IF r.write
                    THEN /\ mods_json' = WriteFile(mods_json, MODERATORS', w)
                         /\ out' = WriteThen("mods.json", w,
                                      <<Reply(<<r.reply>>), LogInfo(r.log \o ToString(user_id))>>)
                    ELSE /\ w = "ok"
                         /\ out' = <<Reply(<<r.reply>>)>>
                         /\ UNCHANGED mods_json
                 /\ UNCHANGED <<ADMINS, admins_json>>
            ELSE /\ w = "ok"
                 /\ out' = <<Reply(<<"Invalid role. Use \"admin\" or \"moderator\".">>)>>
                 /\ Unchanged
    /\ UNCHANGED <<COMMANDS, commands_json>>

\* an update no handler accepts (plain text that is not a command)
no_handler(user_id, words) ==
    /\ Arrive(user_id, words, "none", "ok")
    /\ out' = <<>>
    /\ UNCHANGED <<ADMINS, MODERATORS, COMMANDS, admins_json, mods_json, commands_json>>

-----------------------------------------------------------------------------
(* Inputs *)

AddMessages ==
    {<<"/add_command">>, <<"/add_command", "/hi">>,
     <<"/add_command", "/hi", "Hello">>,
     <<"/add_command", "/hi", "Hello", "there">>,
     <<"/add_command", "!greet", "Hello", "there">>,
     <<"/add_command", "/add_command", "Hello">>}

RemoveMessages ==
    {<<"/remove_command">>, <<"/remove_command", "/hi", "!greet">>,
     <<"/remove_command", "/hi">>, <<"/remove_command", "!greet">>}

AssignMessages ==
    {<<"/assign">>, <<"/assign", "admin", "add", "222", "now">>} \cup
    {<<"/assign", role, action, t>> :
        role \in {"admin", "moderator"}, action \in {"add", "remove"}, t \in {"111", "222"}} \cup
    {<<"/assign", "admin", "add", "0222">>, <<"/assign", "moderator", "remove", "0222">>,
     <<"/assign", "admin", "add", "abc">>,
     <<"/assign", "owner", "add", "222">>, <<"/assign", "owner", "add", "abc">>,
     <<"/assign", "admin", "ban", "222">>, <<"/assign", "moderator", "ban", "abc">>}

CustomMessages == {<<"/hi">>, <<"!greet">>, <<"hello">>}

Messages ==
    AddMessages \cup RemoveMessages \cup AssignMessages \cup CustomMessages \cup
    {<<"/help">>, <<"/view_roles">>}

-----------------------------------------------------------------------------
(* Startup: the three files are loaded, then main() builds the filters *)

StartAdmins == {<<111>>, <<111, 222>>}
StartModerators == {<<>>, <<222>>}
StartCommands == {<<[cmd |-> "/hi", resp |-> "Hi"]>>}

Init ==
    /\ ADMINS \in StartAdmins
    /\ MODERATORS \in StartModerators
    /\ COMMANDS \in StartCommands
    /\ admins_json = File(ADMINS)
    /\ mods_json = File(MODERATORS)
    /\ commands_json = File(COMMANDS)
    /\ adminFilter = Range(ADMINS)
    /\ helpFilter = Range(ADMINS \o MODERATORS)
    /\ liveFilter \in BOOLEAN
    /\ pre = Snapshot
    /\ last = [sender |-> 0, words |-> <<>>, handler |-> "start", write |-> "ok"]
    /\ out = <<>>
    /\ steps = 0

\* Route sends a message to a built-in handler only when its first word
\* is that handler's command, so each built-in draws from its own messages.
Next ==
    \/ \E user_id \in Users, words \in AddMessages, w \in WriteOutcomes :
           add_command(user_id, words, w)
    \/ \E user_id \in Users, words \in RemoveMessages, w \in WriteOutcomes :
           remove_command(user_id, words, w)
    \/ \E user_id \in Users, words \in AssignMessages, w \in WriteOutcomes :
           assign_role(user_id, words, w)
    \/ \E user_id \in Users : list_commands(user_id, <<"/help">>)
    \/ \E user_id \in Users : view_roles(user_id, <<"/view_roles">>)
    \/ \E user_id \in Users, words \in Messages : handle_command(user_id, words)
    \/ \E user_id \in Users, words \in Messages : no_handler(user_id, words)

Spec == Init /\ [][Next]_vars

-----------------------------------------------------------------------------
(* Properties.  They speak of the last update (last), the state it arrived *)
(* in (pre), the effects of its handler (out) and the state it left.       *)

Handled == last.handler # "start"

Invoked(command) == Handled /\ last.words[1] = command

LastArgs == Tail(last.words)

WasAdmin == last.sender \in Range(pre.ADMINS)

WasModerator == last.sender \in Range(pre.MODERATORS)

NothingChanged == Snapshot = pre

Effects == Range(out)

Silent == \A e \in Effects : e.kind \notin {"reply_text", "send_message", "delete_message"}

\* C1: an add-command, remove-command or assign-role invocation, with any
\* arguments, from a sender who is not in the admin list when it arrives
\* leaves the admin list, the moderator list, the command table and the
\* three files unchanged; moderators and removed startup admins included.
C1_NonAdminChangesNothing ==
    (Handled /\ last.words[1] \in {"/add_command", "/remove_command", "/assign"} /\ ~WasAdmin)
        => NothingChanged

\* C1 witness: an admin of the startup list, removed since, reaches
\* assign_role through the filter built at startup with a well-formed
\* request and is turned away.
C1_RemovedAdminTurnedAway ==
    /\ last.handler = "assign_role"
    /\ last.sender \in adminFilter
    /\ ~WasAdmin
    /\ Len(LastArgs) = 3
    /\ LastArgs[1] \in {"admin", "moderator"} /\ LastArgs[2] = "add"
    /\ out = <<LogWarning("Unauthorized assign_role attempt by user " \o ToString(last.sender))>>

\* C2: whenever a sender who is in the admin list at that moment, listed at
\* startup or added later, invokes add-command with at least two arguments
\* (and the write succeeds), the command table is updated and the
\* "Command ... added." reply is sent.
C2_CurrentAdminAddPasses ==
    (Invoked("/add_command") /\ WasAdmin /\ Len(LastArgs) >= 2 /\ last.write = "ok")
        => /\ HasKey(COMMANDS, LastArgs[1])
           /\ Lookup(COMMANDS, LastArgs[1]) = Join(Tail(LastArgs))
           /\ Reply(<<"Command " \o LastArgs[1] \o " added.">>) \in Effects

\* C3: a /help invocation from sender s produces the command-list reply if
\* and only if s is in the admin list or in the moderator list at the
\* moment of the invocation.
C3_HelpRepliesIffRoleHeld ==
    Invoked("/help")
        => ((Reply(HelpLines(pre.COMMANDS)) \in Effects) <=> (WasAdmin \/ WasModerator))

LacksTier ==
    IF last.words[1] = "/help" THEN ~(WasAdmin \/ WasModerator) ELSE ~WasAdmin

\* C4: a built-in command invoked by a sender who lacks its tier produces
\* no reply of any kind, whatever the command table holds.
C4_DeniedBuiltinIsSilent ==
    (Handled /\ last.words[1] \in DOMAIN BuiltinHandler /\ LacksTier)
        => \A e \in Effects : e.kind \notin {"reply_text", "send_message"}

\* C5: a message whose first word is a token t stored in the command table
\* with response r (t not the name of a built-in), from a sender who is an
\* admin or a moderator, gets r sent and then the message deleted; from any
\* other sender it gets no reply and no deletion.
C5_StoredTokenIsServed ==
    (Handled /\ last.words[1] \notin DOMAIN BuiltinHandler
             /\ HasKey(pre.COMMANDS, last.words[1]))
        => IF WasAdmin \/ WasModerator
           THEN \E i \in 1..(Len(out) - 1) :
                    /\ out[i] = SendMessage(<<Lookup(pre.COMMANDS, last.words[1])>>)
                    /\ out[i + 1] = DeleteMessage
           ELSE Silent

Keys(d) == {d[i].cmd : i \in 1..Len(d)}

OthersKept(token) ==
    /\ Keys(COMMANDS) \ {token} = Keys(pre.COMMANDS) \ {token}
    /\ \A k \in Keys(pre.COMMANDS) \ {token} : Lookup(COMMANDS, k) = Lookup(pre.COMMANDS, k)

NoWrite == \A e \in Effects : e.kind # "write"

\* C6: add_command run by an admin with arguments (t, w1..wn), n >= 1, is
\* an unconditional upsert: afterwards the table maps t to w1..wn joined by
\* single spaces, whether or not t was there before, and every other entry
\* is as it was.
C6_AddIsUpsert ==
    (last.handler = "add_command" /\ WasAdmin /\ Len(LastArgs) >= 2)
        => /\ HasKey(COMMANDS, LastArgs[1])
           /\ Lookup(COMMANDS, LastArgs[1]) = Join(Tail(LastArgs))
           /\ (LastArgs = <<"/hi", "Hello", "there">> => Lookup(COMMANDS, "/hi") = "Hello there")
           /\ Cardinality(Keys(COMMANDS)) = Len(COMMANDS)
           /\ OthersKept(LastArgs[1])

\* C6 witness: a token that had another response is overwritten while
\* another entry stays.
C6_Overwritten ==
    /\ last.handler = "add_command" /\ WasAdmin
    /\ LastArgs = <<"/hi", "Hello", "there">>
    /\ HasKey(pre.COMMANDS, "/hi") /\ Lookup(pre.COMMANDS, "/hi") = "Hi"
    /\ Lookup(COMMANDS, "/hi") = "Hello there"
    /\ Keys(COMMANDS) = {"/hi", "!greet"}

UsageOf ==
    ("add_command" :> "Usage: /add_command <command> <response>") @@
    ("remove_command" :> "Usage: /remove_command <command>") @@
    ("assign_role" :> "Usage: /assign <admin|moderator> <add|remove> <user_id>")

WrongCount ==
    \/ last.handler = "add_command" /\ Len(LastArgs) < 2
    \/ last.handler = "remove_command" /\ Len(LastArgs) # 1
    \/ last.handler = "assign_role" /\ Len(LastArgs) # 3

\* C7: add_command, remove_command or assign_role run by an admin with the
\* wrong number of arguments replies with its usage string and changes no
\* list, table or file.
C7_WrongCountIsUsage ==
    (WasAdmin /\ WrongCount)
        => /\ out = <<Reply(<<UsageOf[last.handler]>>)>>
           /\ NothingChanged

\* C7 witness: assign_role with four arguments, the first three well-formed.
C7_FourArgAssign ==
    /\ last.handler = "assign_role" /\ WasAdmin
    /\ LastArgs = <<"admin", "add", "222", "now">>
    /\ 222 \notin Range(pre.ADMINS)
    /\ out = <<Reply(<<"Usage: /assign <admin|moderator> <add|remove> <user_id>">>)>>

\* C8: remove_command run by an admin on a token that is not in the table
\* replies that the command does not exist, leaves the table as it was and
\* does not write commands.json; on a token that is in the table it removes
\* that entry and no other and writes the table to commands.json.
C8_RemoveAbsentOrPresent ==
    (last.handler = "remove_command" /\ WasAdmin /\ Len(LastArgs) = 1)
        => IF ~HasKey(pre.COMMANDS, LastArgs[1])
           THEN /\ out = <<Reply(<<"Command " \o LastArgs[1] \o " does not exist.">>)>>
                /\ NothingChanged
                /\ NoWrite
           ELSE /\ ~HasKey(COMMANDS, LastArgs[1])
                /\ Len(COMMANDS) = Len(pre.COMMANDS) - 1
                /\ OthersKept(LastArgs[1])
                /\ last.write = "ok" =>
                      /\ commands_json = File(COMMANDS)
                      /\ out[1] = Written("commands.json")
                      /\ out[2] = Reply(<<"Command " \o LastArgs[1] \o " removed.">>)

\* C8 witness: an unknown token is refused while the table holds two entries.
C8_UnknownToken ==
    /\ last.handler = "remove_command" /\ WasAdmin
    /\ LastArgs = <<"!greet">>
    /\ ~HasKey(pre.COMMANDS, "!greet")
    /\ Len(COMMANDS) = 2
    /\ out = <<Reply(<<"Command !greet does not exist.">>)>>

NoOpAssign ==
    /\ last.handler = "assign_role" /\ WasAdmin
    /\ Len(LastArgs) = 3
    /\ LastArgs[1] \in {"admin", "moderator"}
    /\ LastArgs[2] \in {"add", "remove"}
    /\ CanParseInt(LastArgs[3])
    /\ LET list == IF LastArgs[1] = "admin" THEN pre.ADMINS ELSE pre.MODERATORS
       IN (LastArgs[2] = "add") <=> (ParseInt(LastArgs[3]) \in Range(list))

NoOpReply ==
    "User " \o ToString(ParseInt(LastArgs[3])) \o
    (IF LastArgs[2] = "add" THEN " is already " ELSE " is not ") \o
    (IF LastArgs[1] = "admin" THEN "an admin." ELSE "a moderator.")

\* C9: assign_role run by an admin to add an identity already in the named
\* tier, or to remove one that is not in it, leaves both lists as they
\* were, writes no file and replies "is already" / "is not"; so repeating
\* an add leaves the list as the first add left it.
C9_NoOpAssignment ==
    NoOpAssign
        => /\ NothingChanged
           /\ NoWrite
           /\ out = <<Reply(<<NoOpReply>>)>>

\* C9 witness: the add of a moderator is repeated after it succeeded.
C9_RepeatedAdd ==
    /\ last.handler = "assign_role" /\ WasAdmin
    /\ LastArgs = <<"moderator", "add", "222">>
    /\ 222 \notin helpFilter
    /\ MODERATORS = <<222>>
    /\ out = <<Reply(<<"User 222 is already a moderator.">>)>>

\* C10: assign_role run by an admin with three arguments whose third is not
\* an integer literal replies with the usage string, changes nothing and
\* raises no exception.
C10_MalformedIdIsUsage ==
    (last.handler = "assign_role" /\ WasAdmin /\ Len(LastArgs) = 3 /\ ~CanParseInt(LastArgs[3]))
        => /\ out = <<Reply(<<UsageOf["assign_role"]>>)>>
           /\ NothingChanged
           /\ \A e \in Effects : e.kind # "raise"

InvalidRoleOrAction ==
    /\ last.handler = "assign_role" /\ WasAdmin
    /\ Len(LastArgs) = 3
    /\ (LastArgs[1] \notin {"admin", "moderator"} \/ LastArgs[2] \notin {"add", "remove"})

\* C11: assign_role run by an admin with three arguments whose role is not
\* admin or moderator, or whose action is not add or remove, replies with
\* the rejection message that names the valid choices and changes nothing,
\* whatever the third argument is.
C11_InvalidRoleOrActionRejected ==
    InvalidRoleOrAction
        => /\ out = <<Reply(<<IF LastArgs[1] \in {"admin", "moderator"}
                              THEN "Invalid action. Use \"add\" or \"remove\"."
                              ELSE "Invalid role. Use \"admin\" or \"moderator\".">>)>>
           /\ NothingChanged

InSync(s) ==
    /\ s.admins_json = File(s.ADMINS)
    /\ s.mods_json = File(s.MODERATORS)
    /\ s.commands_json = File(s.COMMANDS)

\* C12: between handler calls, as long as no write has failed, each file
\* holds exactly its collection, list order included.  Stated step by
\* step: the files agree with memory at startup; a call whose write did not
\* fail keeps them in agreement; and a call that changed a collection and
\* whose write did not fail has rewritten that collection's file with the
\* whole new collection.
C12_FilesFollowMemory ==
    /\ steps = 0 => InSync(Snapshot)
    /\ (InSync(pre) /\ last.write = "ok") => InSync(Snapshot)
    /\ (ADMINS # pre.ADMINS /\ last.write = "ok")
          => admins_json = File(ADMINS) /\ Written("admins.json") \in Effects
    /\ (MODERATORS # pre.MODERATORS /\ last.write = "ok")
          => mods_json = File(MODERATORS) /\ Written("mods.json") \in Effects
    /\ (COMMANDS # pre.COMMANDS /\ last.write = "ok")
          => commands_json = File(COMMANDS) /\ Written("commands.json") \in Effects

\* C12 witness: two mutations in a row, each written: an admin is appended
\* after the first and the file holds the list in that order.
C12_AppendedAndWritten ==
    /\ last.handler = "assign_role" /\ last.write = "ok"
    /\ pre.MODERATORS = <<222>> /\ 222 \notin helpFilter
    /\ MODERATORS = <<222, 111>>
    /\ mods_json = File(<<222, 111>>)
    /\ InSync(pre) /\ InSync(Snapshot)

WriteFailed == last.write # "ok"

\* the list assign_role works on, in record s
TierList(s) == IF LastArgs[1] = "admin" THEN s.ADMINS ELSE s.MODERATORS

\* the mutation the last call asked for is in memory
MutationApplied ==
    CASE last.handler = "add_command" ->
            /\ HasKey(COMMANDS, LastArgs[1])
            /\ Lookup(COMMANDS, LastArgs[1]) = Join(Tail(LastArgs))
      [] last.handler = "remove_command" ->
            /\ HasKey(pre.COMMANDS, LastArgs[1])
            /\ ~HasKey(COMMANDS, LastArgs[1])
      [] last.handler = "assign_role" ->
            LET id == ParseInt(LastArgs[3]) IN
            IF LastArgs[2] = "add"
            THEN id \notin Range(TierList(pre)) /\ id \in Range(TierList(Snapshot))
            ELSE id \in Range(TierList(pre)) /\ id \notin Range(TierList(Snapshot))
      [] OTHER -> FALSE

\* which file the last call writes, as a field name of Snapshot
FileDiverges(s, name) ==
    CASE name = "admins" -> s.admins_json # File(s.ADMINS)
      [] name = "mods" -> s.mods_json # File(s.MODERATORS)
      [] name = "commands" -> s.commands_json # File(s.COMMANDS)

WrittenName(name) ==
    CASE name = "admins" -> "admins.json"
      [] name = "mods" -> "mods.json"
      [] name = "commands" -> "commands.json"

LastFile ==
    IF last.handler = "assign_role"
    THEN (IF LastArgs[1] = "admin" THEN "admins" ELSE "mods")
    ELSE "commands"

Collections == {"admins", "mods", "commands"}

\* C13 as stated: after a failed write the mutation stays in memory and the
\* file differs from memory, and a file that differs from memory goes on
\* differing until a write of that collection succeeds.
C13_DivergentUntilWritten ==
    /\ WriteFailed => MutationApplied /\ FileDiverges(Snapshot, LastFile)
    /\ \A c \in Collections :
          (FileDiverges(pre, c) /\ Written(WrittenName(c)) \notin Effects)
              => FileDiverges(Snapshot, c)

FileOf(s, name) ==
    CASE name = "admins" -> s.admins_json
      [] name = "mods" -> s.mods_json
      [] name = "commands" -> s.commands_json

MemoryKept(name) ==
    CASE name = "admins" -> ADMINS = pre.ADMINS
      [] name = "mods" -> MODERATORS = pre.MODERATORS
      [] name = "commands" -> COMMANDS = pre.COMMANDS

\* C13 amended: after a failed write the mutation stays in memory (no
\* rollback) and the file keeps its previous content or is left truncated,
\* never the new collection unless that equals what the file held; a file
\* changes only by a write, and a file that differs from memory goes on
\* differing while its collection is unchanged and no write of it succeeds.
C13_NoRollback ==
    /\ WriteFailed =>
          /\ MutationApplied
          /\ FileOf(Snapshot, LastFile) \in {FileOf(pre, LastFile), Truncated}
          /\ \A c \in Collections \ {LastFile} :
                FileOf(Snapshot, c) = FileOf(pre, c) /\ MemoryKept(c)
    /\ \A c \in Collections :
          /\ (Written(WrittenName(c)) \notin Effects /\ ~(WriteFailed /\ c = LastFile))
                => FileOf(Snapshot, c) = FileOf(pre, c)
          /\ (FileDiverges(pre, c) /\ MemoryKept(c) /\ Written(WrittenName(c)) \notin Effects)
                => FileDiverges(Snapshot, c)

\* C13 witness: the write of a new admin failed, the new admin is then
\* accepted as an admin by add_command, whose own write fails too: the
\* table holds the new response and both files still differ from memory.
C13_UnwrittenAdminActs ==
    /\ last.handler = "add_command" /\ WriteFailed
    /\ last.sender \notin adminFilter /\ WasAdmin
    /\ pre.admins_json # File(pre.ADMINS)
    /\ LastArgs = <<"/hi", "Hello">>
    /\ Lookup(COMMANDS, "/hi") = "Hello"
    /\ admins_json # File(ADMINS) /\ commands_json # File(COMMANDS)

\* C14: when the write of a mutating built-in fails, the failure is logged
\* (by the handler, or by the dispatcher that receives the exception) and
\* an error reply is sent to the sender.
C14_WriteFailureReported ==
    WriteFailed
        => /\ \E e \in Effects : e.kind \in {"log_warning", "log_info", "raise"}
           /\ \E e \in Effects : e.kind \in {"reply_text", "send_message"}

WarningsNaming(user_id) ==
    {LogWarning("Unauthorized " \o what \o " attempt by user " \o ToString(user_id)) :
        what \in {"command", "add_command", "remove_command", "help command",
                  "view_roles command", "assign_role"}}

Refused ==
    /\ Handled
    /\ \/ last.words[1] \in DOMAIN BuiltinHandler /\ LacksTier
       \/ HasKey(pre.COMMANDS, last.words[1]) /\ ~(WasAdmin \/ WasModerator)

\* C15: every invocation of a built-in or of a custom command that is
\* refused because the sender lacks the tier logs a warning naming the
\* sender; a moderator refused an admin-only built-in included.
C15_DenialIsLogged ==
    Refused => \E e \in Effects : e \in WarningsNaming(last.sender)

OtherTierList(s) == IF LastArgs[1] = "admin" THEN s.MODERATORS ELSE s.ADMINS

TierAssign ==
    /\ last.handler = "assign_role" /\ WasAdmin
    /\ Len(LastArgs) = 3
    /\ LastArgs[1] \in {"admin", "moderator"}
    /\ LastArgs[2] \in {"add", "remove"}
    /\ CanParseInt(LastArgs[3])

\* C16: admin and moderator membership are independent: assign_role on one
\* tier leaves the other tier's list and file as they were, and an add or a
\* remove on one tier takes effect whether or not the identity is in the
\* other tier.
C16_TiersIndependent ==
    TierAssign
        => LET id == ParseInt(LastArgs[3]) IN
           /\ OtherTierList(Snapshot) = OtherTierList(pre)
           /\ IF LastArgs[1] = "admin"
              THEN mods_json = pre.mods_json
              ELSE admins_json = pre.admins_json
           /\ IF LastArgs[2] = "add"
              THEN TierList(Snapshot) =
                      IF id \in Range(TierList(pre)) THEN TierList(pre)
                      ELSE Append(TierList(pre), id)
              ELSE id \notin Range(TierList(Snapshot))

\* C16 witness: an identity that is an admin is added as a moderator and is
\* then in both tiers, while another identity is in exactly one.
C16_InBothTiers ==
    /\ TierAssign
    /\ LastArgs = <<"moderator", "add", "222">>
    /\ 222 \in Range(pre.ADMINS) /\ 222 \notin Range(pre.MODERATORS)
    /\ 222 \in Range(ADMINS) /\ 222 \in Range(MODERATORS)
    /\ 111 \in Range(ADMINS) /\ 111 \notin Range(MODERATORS)

\* the place of an effect in the order write, reply, delete, log
Rank(kind) ==
    CASE kind = "write" -> 1
      [] kind \in {"reply_text", "send_message"} -> 2
      [] kind = "delete_message" -> 3
      [] kind \in {"log_info", "log_warning"} -> 4
      [] kind = "raise" -> 5

SuccessReplied ==
    /\ last.handler \in {"add_command", "remove_command", "assign_role"}
    /\ \E e \in Effects : e.kind = "reply_text"
    /\ \E e \in Effects : e.kind = "log_info"

\* C17: the effects of one call come in the order persist, reply, deletion
\* of the trigger message, log: the success reply of a mutation comes only
\* after the write of that mutation has completed, and the trigger message
\* of a custom command is deleted only after its response was sent.
C17_EffectsInOrder ==
    /\ \A i, j \in 1..Len(out) : i < j => Rank(out[i].kind) < Rank(out[j].kind)
    /\ SuccessReplied
          => /\ last.write = "ok"
             /\ out[1] = Written(WrittenName(LastFile))
             /\ ~FileDiverges(Snapshot, LastFile)
    /\ \A j \in 1..Len(out) :
          out[j].kind = "delete_message"
              => j > 1 /\ out[j - 1] = SendMessage(<<Lookup(pre.COMMANDS, last.words[1])>>)

\* C17 witness: a removal that was written, then replied to, then logged.
C17_RemovedInOrder ==
    /\ last.handler = "remove_command"
    /\ last.sender = 222 /\ 222 \notin adminFilter
    /\ out = <<Written("commands.json"),
               Reply(<<"Command /hi removed.">>),
               LogInfo("Command /hi removed by admin 222")>>

\* the command a line of the help text begins with
LineCommand ==
    ("/add_command <command> <response> - Add a new command (Admins only)" :> "/add_command") @@
    ("/remove_command <command> - Remove an existing command (Admins only)" :> "/remove_command") @@
    ("/assign <admin|moderator> <add|remove> <user_id> - Assign roles (Admins only)" :> "/assign") @@
    ("/help - Show this help message" :> "/help")

Describes(line, command) == line \in DOMAIN LineCommand /\ LineCommand[line] = command

\* C18: the list-commands reply describes each of the five built-ins and
\* then gives every entry of the command table, in table order.
C18_HelpListsEverything ==
    (last.handler = "list_commands" /\ (WasAdmin \/ WasModerator))
        => \E e \in Effects :
              /\ e.kind = "reply_text"
              /\ \A b \in DOMAIN BuiltinHandler :
                    \E i \in 1..Len(e.text) : Describes(e.text[i], b)
              /\ \E k \in 1..Len(e.text) :
                    /\ \A b \in DOMAIN BuiltinHandler, i \in 1..Len(e.text) :
                          Describes(e.text[i], b) => i < k
                    /\ Len(e.text) = k + Len(pre.COMMANDS)
                    /\ \A n \in 1..Len(pre.COMMANDS) :
                          e.text[k + n] = pre.COMMANDS[n].cmd \o " - " \o pre.COMMANDS[n].resp

NoDuplicates(l) == Cardinality(Range(l)) = Len(l)

\* C19: the admin list and the moderator list, free of duplicates at
\* startup, stay free of duplicates whatever assign-role invocations are
\* made, and after a remove the identity is not in the list.
C19_NoDuplicateIds ==
    /\ NoDuplicates(ADMINS)
    /\ NoDuplicates(MODERATORS)
    /\ (TierAssign /\ LastArgs[2] = "remove")
          => ParseInt(LastArgs[3]) \notin Range(TierList(Snapshot))

\* C19 witness: an identity added under one spelling and added again under
\* another is in the list once.
C19_AddedOnce ==
    /\ TierAssign
    /\ LastArgs = <<"admin", "add", "0222">>
    /\ 222 \notin adminFilter
    /\ pre.ADMINS = <<111, 222>>
    /\ ADMINS = <<111, 222>>

\* C20: an admin can remove any admin, themselves and the last one
\* included, and once the admin list is empty no invocation by any sender
\* changes the admin list, the moderator list, the command table or a file.
C20_EmptyAdminsAbsorbing ==
    /\ (TierAssign /\ LastArgs[1] = "admin" /\ LastArgs[2] = "remove")
          => ADMINS = ListRemove(pre.ADMINS, ParseInt(LastArgs[3]))
    /\ (Handled /\ pre.ADMINS = <<>>) => ADMINS = <<>> /\ NothingChanged

\* C20 witness: the only admin has removed themselves and then asks, through
\* the filter built at startup, to be made admin again: nothing changes.
C20_LockedOut ==
    /\ pre.ADMINS = <<>> /\ ADMINS = <<>>
    /\ adminFilter = {111} /\ last.sender = 111
    /\ last.handler = "assign_role"
    /\ LastArgs = <<"admin", "add", "111">>
    /\ out = <<LogWarning("Unauthorized assign_role attempt by user 111")>>

====
